---------------------------- MODULE Spec2Model ----------------------------
(***************************************************************************)
(* A model of plot_csv.py: the event-label normalizer, the two CSV loaders *)
(* of main() and read_events(), the control flow of main(), and the hover  *)
(* handler on_move().                                                      *)
(*                                                                         *)
(* Representation.                                                         *)
(*   - A Python str on which the code works character by character (a CSV  *)
(*     field, an event label, a series name) is a sequence of              *)
(*     one-character strings.  Column names, which the code only compares, *)
(*     are plain strings.                                                  *)
(*   - None (the DictReader's restval for a field a short row lacks) is    *)
(*     the one-element sequence <<"None">>, which no field text equals.    *)
(*   - A float is the integer number of its thousandths (1.0 is 1000), so  *)
(*     the ':.3f' formatting of the tooltip is exact.  The field texts the *)
(*     model enumerates use the characters 0-9 . + - space and letters     *)
(*     that are no part of a number, with at most three fractional digits. *)
(***************************************************************************)
EXTENDS Integers, Sequences, FiniteSets, TLC

VARIABLES
    pc,              \* position of the thread of control
    args,            \* the parsed command line of main()
    rowIdx,          \* rows of the main CSV consumed by `for row in r`
    months, wheat, flour, bread,   \* the four parallel lists of main()
    evIdx,           \* rows of the events CSV consumed by read_events
    times_by_label,  \* read_events: normalized label -> list of times
    lines,           \* the plotted series, in plot order
    hover_events,    \* the (marker, label, t) list, in creation order
    plt,             \* matplotlib.pyplot has been imported
    saved, shown,    \* fig.savefig / plt.show have been called
    exitCode,        \* the process's exit status, -1 while it runs
    stderr,          \* diagnostics written to standard error
    annot,           \* the single tooltip annotation
    drew,            \* the last on_move called fig.canvas.draw_idle()
    event,           \* the motion event being delivered to on_move
    label, key       \* normalize: its argument and its result

runVars   == <<pc, args, rowIdx, months, wheat, flour, bread, evIdx,
               times_by_label, lines, hover_events, plt, saved, shown,
               exitCode, stderr>>
hoverVars == <<annot, drew, event>>
normVars  == <<label, key>>
vars      == <<runVars, hoverVars, normVars>>

---------------------------------------------------------------------------
(* Python str operations, as the code uses them.                           *)

None == <<"None">>

Whitespace == {" ", "\t"}

\* str.strip(): leading and trailing whitespace removed.
RECURSIVE lstrip(_)
lstrip(s) ==
    IF s # <<>> /\ Head(s) \in Whitespace THEN lstrip(Tail(s)) ELSE s

RECURSIVE rstrip(_)
rstrip(s) ==
    IF s # <<>> /\ s[Len(s)] \in Whitespace
    THEN rstrip(SubSeq(s, 1, Len(s) - 1)) ELSE s

strip(s) == rstrip(lstrip(s))

\* `c in s`
Contains(s, c) == \E i \in 1..Len(s) : s[i] = c

\* s.find(c) + 1: the position of the first c, 0 when there is none.
Find(s, c) ==
    IF Contains(s, c)
    THEN CHOOSE i \in 1..Len(s) : s[i] = c /\ \A j \in 1..(i - 1) : s[j] # c
    ELSE 0

\* s.rfind(c) + 1: the position of the last c, 0 when there is none.
RFind(s, c) ==
    IF Contains(s, c)
    THEN CHOOSE i \in 1..Len(s) : s[i] = c /\ \A j \in (i + 1)..Len(s) : s[j] # c
    ELSE 0

\* s.split(c, 1)[0]
SplitHead(s, c) ==
    IF Find(s, c) = 0 THEN s ELSE SubSeq(s, 1, Find(s, c) - 1)

\* s.split(c, 1)[1]  (the code evaluates it only when c is in s)
SplitTail(s, c) == SubSeq(s, Find(s, c) + 1, Len(s))

\* s.rsplit(c, 1)[0]
RSplitHead(s, c) ==
    IF RFind(s, c) = 0 THEN s ELSE SubSeq(s, 1, RFind(s, c) - 1)

\* s.startswith(p)
StartsWith(s, p) == Len(s) >= Len(p) /\ SubSeq(s, 1, Len(p)) = p

---------------------------------------------------------------------------
(* read_events.normalize                                                   *)

Farm   == <<"F","a","r","m">>
Mill   == <<"M","i","l","l">>
Bakery == <<"B","a","k","e","r","y">>

\* the tuple the fallback loop iterates
Actors == <<Farm, Mill, Bakery>>

\* a slip in the fallback: >= for >, so a bare actor name gets a dot
RECURSIVE FallbackFromLoose(_, _)
FallbackFromLoose(head, i) ==
    IF i > Len(Actors) THEN head
    ELSE IF StartsWith(head, Actors[i]) /\ Len(head) >= Len(Actors[i])
         THEN Actors[i] \o <<".">> \o SubSeq(head, Len(Actors[i]) + 1, Len(head))
         ELSE FallbackFromLoose(head, i + 1)

\* for actor in ("Farm", "Mill", "Bakery"): ... return head
RECURSIVE FallbackFrom(_, _)
FallbackFrom(head, i) ==
    IF i > Len(Actors) THEN head
    ELSE IF StartsWith(head, Actors[i]) /\ Len(head) > Len(Actors[i])
         THEN Actors[i] \o <<".">> \o SubSeq(head, Len(Actors[i]) + 1, Len(head))
         ELSE FallbackFrom(head, i + 1)

Fallback(s) ==
    FallbackFrom(strip(SplitHead(SplitHead(s, "{"), "(")), 1)

\* a slip in the nested step: the variant cut at '{' only
NestedVariantBraceOnly(inner) == strip(SplitHead(inner, "{"))

NestedVariant(inner) == strip(SplitHead(SplitHead(inner, "{"), "("))

normalize(lbl) ==
    LET s       == strip(lbl)
        actor   == strip(SplitHead(s, "("))
        inner   == RSplitHead(SplitTail(s, "("), ")")
        variant == NestedVariant(inner)
    IN  IF Contains(s, "(") /\ Contains(s, ")") /\ actor # <<>> /\ variant # <<>>
        THEN actor \o <<".">> \o variant
        ELSE Fallback(s)

---------------------------------------------------------------------------
(* float() and int() of a CSV field.                                       *)

DigitChars == <<"0","1","2","3","4","5","6","7","8","9">>

IsDigit(c) == \E i \in 1..Len(DigitChars) : DigitChars[i] = c

DigitVal(c) == (CHOOSE i \in 1..Len(DigitChars) : DigitChars[i] = c) - 1

AllDigits(s) == \A i \in 1..Len(s) : IsDigit(s[i])

RECURSIVE DecVal(_)
DecVal(s) ==
    IF s = <<>> THEN 0
    ELSE 10 * DecVal(SubSeq(s, 1, Len(s) - 1)) + DigitVal(s[Len(s)])

\* the thousandths a fraction's digits stand for (digits past the third
\* are beyond the model's resolution)
FracMilli(d) ==
    DecVal(SubSeq(d \o <<"0","0","0">>, 1, 3))

Unsigned(s) ==
    IF s # <<>> /\ Head(s) \in {"+", "-"} THEN Tail(s) ELSE s

SignOf(s) == IF s # <<>> /\ Head(s) = "-" THEN -1 ELSE 1

\* int(field): [ok, val]; ok is FALSE where Python raises
ParseInt(field) ==
    LET s == strip(field)
        u == Unsigned(s)
    IN  IF field # None /\ u # <<>> /\ AllDigits(u)
        THEN [ok |-> TRUE, val |-> SignOf(s) * DecVal(u)]
        ELSE [ok |-> FALSE, val |-> 0]

\* float(field): [ok, val], val in thousandths
ParseFloat(field) ==
    LET s  == strip(field)
        u  == Unsigned(s)
        ip == SplitHead(u, ".")
        fp == IF Contains(u, ".") THEN SplitTail(u, ".") ELSE <<>>
    IN  IF field # None /\ AllDigits(ip) /\ AllDigits(fp) /\ Len(ip) + Len(fp) > 0
        THEN [ok |-> TRUE, val |-> SignOf(s) * (1000 * DecVal(ip) + FracMilli(fp))]
        ELSE [ok |-> FALSE, val |-> 0]

\* f"{x:.3f}": sign, integer part, three fractional digits
Fmt3(x) ==
    LET a == IF x < 0 THEN -x ELSE x
    IN  [neg |-> x < 0, int |-> a \div 1000, frac |-> a % 1000]


---------------------------------------------------------------------------
(* Values the variables hold in a specification that does not use them.    *)

NoFile == [header |-> <<>>, rows |-> <<>>]

NoArgs == [csv |-> NoFile, out |-> FALSE, show |-> FALSE,
           events |-> [given |-> FALSE, readable |-> FALSE, file |-> NoFile]]

NoText == [kind |-> "empty", label |-> <<>>, y |-> 0, t |-> Fmt3(0)]

\* annot = ax.annotate("", xy=(0, 0), ...); annot.set_visible(False)
NewAnnot == [visible |-> FALSE, xy |-> <<0, 0>>, text |-> NoText]

NoEvent == [inaxes |-> FALSE, xdata |-> 0, ydata |-> 0,
            series |-> <<>>, markers |-> <<>>]

RunIdle ==
    /\ args = NoArgs /\ rowIdx = 0
    /\ months = <<>> /\ wheat = <<>> /\ flour = <<>> /\ bread = <<>>
    /\ evIdx = 0 /\ times_by_label = <<>>
    /\ lines = <<>> /\ hover_events = <<>>
    /\ plt = FALSE /\ saved = FALSE /\ shown = FALSE
    /\ exitCode = -1 /\ stderr = <<>>

HoverIdle == annot = NewAnnot /\ drew = FALSE /\ event = NoEvent

NormIdle == label = <<>> /\ key = <<>>

---------------------------------------------------------------------------
(* SpecNorm: normalize applied to each label of a bounded set.             *)

MaxTokens == 4

TokenSet == {Farm, Mill, Bakery, <<"x">>, <<"(">>, <<")">>, <<"{">>, <<" ">>}

RECURSIVE TokenLabels(_)
TokenLabels(n) ==
    IF n = 0 THEN {<<>>}
    ELSE LET P == TokenLabels(n - 1)
         IN  P \cup {p \o t : p \in P, t \in TokenSet}

ExampleLabels ==
    { <<"F","a","r","m","(","H","a","r","v","e","s","t","{","x",":","1","}",")">>,
      <<"B","a","k","e","r","y","(","B","a","k","e","(","n","e","s","t","e","d",")",")">>,
      <<"M","i","l","l","G","r","i","n","d">>,
      <<"O","v","e","n">>,
      <<"F","a","r","m","(","S","o","w","{","}",")">>,
      <<"F","a","r","m",".","H","a","r","v","e","s","t">> }

Labels == TokenLabels(MaxTokens) \cup ExampleLabels

InitNorm ==
    /\ pc = "normalize"
    /\ label \in Labels
    /\ key = <<>>
    /\ RunIdle /\ HoverIdle

\* key = normalize(label)
Normalize ==
    /\ pc = "normalize"
    /\ key' = normalize(label)
    /\ pc' = "normalized"
    /\ UNCHANGED <<args, rowIdx, months, wheat, flour, bread, evIdx,
                   times_by_label, lines, hover_events, plt, saved, shown,
                   exitCode, stderr, hoverVars, label>>

NextNorm == Normalize

SpecNorm == InitNorm /\ [][NextNorm]_vars

\* Whether the parenthesis step of normalize returns (source lines 11-16).
NestedReturns(lbl) ==
    LET s == strip(lbl)
    IN  /\ Contains(s, "(") /\ Contains(s, ")")
        /\ strip(SplitHead(s, "(")) # <<>>
        /\ NestedVariant(RSplitHead(SplitTail(s, "("), ")")) # <<>>

---------------------------------------------------------------------------
(* The statements about normalize, in terms of positions in the label.     *)

\* the least position of s holding a character of cs, 0 when there is none
Leftmost(s, cs) ==
    LET P == {i \in 1..Len(s) : s[i] \in cs}
    IN  IF P = {} THEN 0 ELSE CHOOSE i \in P : \A j \in P : i <= j

\* the greatest position of s holding a character of cs, 0 when none
Rightmost(s, cs) ==
    LET P == {i \in 1..Len(s) : s[i] \in cs}
    IN  IF P = {} THEN 0 ELSE CHOOSE i \in P : \A j \in P : i >= j

\* s without its leading and trailing whitespace
Trimmed(s) ==
    LET P == {i \in 1..Len(s) : s[i] \notin Whitespace}
    IN  IF P = {} THEN <<>>
        ELSE SubSeq(s, CHOOSE i \in P : \A j \in P : i <= j,
                       CHOOSE i \in P : \A j \in P : i >= j)

\* the text before the leftmost character of cs (all of s when none)
Before(s, cs) ==
    IF Leftmost(s, cs) = 0 THEN s ELSE SubSeq(s, 1, Leftmost(s, cs) - 1)

ClaimActor(lbl) == Trimmed(Before(lbl, {"("}))

\* between the first '(' and the last ')': empty when no ')' follows the '('
ClaimInner(lbl) ==
    SubSeq(lbl, Leftmost(lbl, {"("}) + 1, Rightmost(lbl, {")"}) - 1)

ClaimVariant(lbl) == Trimmed(Before(ClaimInner(lbl), {"{", "("}))

ClaimHead(lbl) == Trimmed(Before(lbl, {"{", "("}))

IsProperPrefix(p, s) == Len(s) > Len(p) /\ SubSeq(s, 1, Len(p)) = p

ClaimFallback(head) ==
    LET N == {i \in 1..Len(Actors) : IsProperPrefix(Actors[i], head)}
    IN  IF N = {} THEN head
        ELSE LET i == CHOOSE i \in N : \A j \in N : i <= j
             IN  Actors[i] \o <<".">> \o SubSeq(head, Len(Actors[i]) + 1, Len(head))

\* C7: for a label containing '(' and ')', with actor the trimmed text
\* before the first '(', inner the text between the first '(' and the last
\* ')' and variant the trimmed part of inner before its leftmost '{' or '(':
\* when actor and variant are non-empty, normalize returns actor.variant.
C7_NestedForm ==
    (/\ pc = "normalized"
     /\ Leftmost(label, {"("}) # 0 /\ Rightmost(label, {")"}) # 0
     /\ ClaimActor(label) # <<>> /\ ClaimVariant(label) # <<>>)
    => key = ClaimActor(label) \o <<".">> \o ClaimVariant(label)

\* 'Bakery(Bake(nested))' has been normalized to 'Bakery.Bake'
C7_Witness ==
    /\ pc = "normalized"
    /\ label = <<"B","a","k","e","r","y","(","B","a","k","e","(","n","e","s","t","e","d",")",")">>
    /\ key = <<"B","a","k","e","r","y",".","B","a","k","e">>

\* C8: whenever the parenthesis step does not return, normalize returns
\* name.rest for the first of Farm, Mill, Bakery that is a proper prefix of
\* head (the trimmed text before the leftmost '{' or '('), and head itself,
\* with no dot, when no name is a proper prefix of it.
C8_FallbackForm ==
    (pc = "normalized" /\ ~NestedReturns(label))
    => key = ClaimFallback(ClaimHead(label))

\* a head equal to a recognized name has been returned unchanged
C8_Witness ==
    /\ pc = "normalized"
    /\ ~NestedReturns(label)
    /\ label = Farm \o <<"(">>
    /\ key = Farm


---------------------------------------------------------------------------
(* csv.DictReader, and the two row loops.                                  *)

Range(f) == {f[i] : i \in DOMAIN f}

\* a slip in the header check: any required column is enough
HasAnyRequired(header, required) == required \cap Range(header) # {}

\* required.issubset(r.fieldnames or {})
HasRequired(header, required) == required \subseteq Range(header)

\* row[col]: the field under col; None (restval) when the row is too short.
\* A column the header lacks raises KeyError inside the row's try block,
\* which drops the row as a field that does not parse does.
RowGet(header, row, col) ==
    IF col \notin Range(header) THEN None
    ELSE LET i == CHOOSE i \in 1..Len(header) : header[i] = col
         IN  IF i <= Len(row) THEN row[i] ELSE None

\* row.get(None): the fields past the header (restkey), empty when none
RowExtras(header, row) == SubSeq(row, Len(header) + 1, Len(row))

\* a slip in the row loop: each list is appended as soon as its field parses
AppendSampleEager(lists, header, row) ==
    LET t  == ParseFloat(RowGet(header, row, "months"))
        w  == ParseInt(RowGet(header, row, "wheat"))
        fl == ParseInt(RowGet(header, row, "flour"))
        br == ParseInt(RowGet(header, row, "bread"))
    IN  <<IF t.ok THEN Append(lists[1], t.val) ELSE lists[1],
          IF t.ok /\ w.ok THEN Append(lists[2], w.val) ELSE lists[2],
          IF t.ok /\ w.ok /\ fl.ok THEN Append(lists[3], fl.val) ELSE lists[3],
          IF t.ok /\ w.ok /\ fl.ok /\ br.ok THEN Append(lists[4], br.val) ELSE lists[4]>>

\* the try block of main's row loop and the appends after it
\* (lists is <<months, wheat, flour, bread>>)
AppendSample(lists, header, row) ==
    LET t  == ParseFloat(RowGet(header, row, "months"))
        w  == ParseInt(RowGet(header, row, "wheat"))
        fl == ParseInt(RowGet(header, row, "flour"))
        br == ParseInt(RowGet(header, row, "bread"))
    IN  IF t.ok /\ w.ok /\ fl.ok /\ br.ok
        THEN <<Append(lists[1], t.val), Append(lists[2], w.val),
               Append(lists[3], fl.val), Append(lists[4], br.val)>>
        ELSE lists

\* ",".join(parts)
RECURSIVE Join(_)
Join(parts) ==
    IF Len(parts) = 1 THEN parts[1]
    ELSE parts[1] \o <<",">> \o Join(Tail(parts))

\* the try block of read_events' row loop: [ok, t, label]; ok is FALSE where
\* it raises (float() fails, or the label is None and cannot be joined or
\* stripped)
EventRowEntry(header, row) ==
    LET t      == ParseFloat(RowGet(header, row, "months"))
        lbl    == RowGet(header, row, "event")
        extras == RowExtras(header, row)
    IN  IF t.ok /\ lbl # None
        THEN [ok |-> TRUE, t |-> t.val,
              label |-> strip(IF extras # <<>> THEN Join(<<lbl>> \o extras) ELSE lbl)]
        ELSE [ok |-> FALSE, t |-> 0, label |-> <<>>]

\* a slip: the list under the key is replaced, not extended
DictAppendOverwrite(d, k, t) ==
    IF k \in DOMAIN d THEN [d EXCEPT ![k] = <<t>>]
    ELSE d @@ (k :> <<t>>)

\* times_by_label.setdefault(key, []).append(t)
DictAppend(d, k, t) ==
    IF k \in DOMAIN d THEN [d EXCEPT ![k] = Append(@, t)]
    ELSE d @@ (k :> <<t>>)

\* the body of `for row in r` in read_events, for a row that is not blank
AddEventRow(d, header, row) ==
    LET e == EventRowEntry(header, row)
    IN  IF e.ok THEN DictAppend(d, normalize(e.label), e.t) ELSE d

---------------------------------------------------------------------------
(* sorted() of strings and of numbers, and the plot set-up of main().      *)

AsciiOrder ==
    <<"\t", " ", "(", ")", "+", ",", "-", ".",
      "0","1","2","3","4","5","6","7","8","9", ":",
      "A","B","C","D","E","F","G","H","I","J","K","L","M",
      "N","O","P","Q","R","S","T","U","V","W","X","Y","Z",
      "a","b","c","d","e","f","g","h","i","j","k","l","m",
      "n","o","p","q","r","s","t","u","v","w","x","y","z", "{", "}">>

Ord(c) == CHOOSE i \in 1..Len(AsciiOrder) : AsciiOrder[i] = c

\* a < b for two str
RECURSIVE StrLess(_, _)
StrLess(a, b) ==
    IF b = <<>> THEN FALSE
    ELSE IF a = <<>> THEN TRUE
    ELSE IF Head(a) = Head(b) THEN StrLess(Tail(a), Tail(b))
    ELSE Ord(Head(a)) < Ord(Head(b))

\* sorted(keys)
RECURSIVE SortedLabels(_)
SortedLabels(S) ==
    IF S = {} THEN <<>>
    ELSE LET m == CHOOSE m \in S : \A o \in S \ {m} : StrLess(m, o)
         IN  <<m>> \o SortedLabels(S \ {m})

\* the position at which sorted() keeps x among the sorted xs (after equals)
RECURSIVE InsertSorted(_, _)
InsertSorted(xs, x) ==
    IF xs = <<>> THEN <<x>>
    ELSE IF x < Head(xs) THEN <<x>> \o xs
    ELSE <<Head(xs)>> \o InsertSorted(Tail(xs), x)

\* sorted(times)
RECURSIVE SortedTimes(_)
SortedTimes(ts) ==
    IF ts = <<>> THEN <<>>
    ELSE InsertSorted(SortedTimes(SubSeq(ts, 1, Len(ts) - 1)), ts[Len(ts)])

Wheat == <<"W","h","e","a","t">>
Flour == <<"F","l","o","u","r">>
Bread == <<"B","r","e","a","d">>

\* if months: l1, l2, l3 = ax.step(...); lines = [l1, l2, l3]
PlotLines(ms, w, fl, br) ==
    IF ms = <<>> THEN <<>>
    ELSE << [label |-> Wheat, xd |-> ms, yd |-> w],
            [label |-> Flour, xd |-> ms, yd |-> fl],
            [label |-> Bread, xd |-> ms, yd |-> br] >>

\* for t in sorted(times): hover_events.append((ln, label, t))
MarkersOf(lbl, ts) == [i \in 1..Len(ts) |-> [label |-> lbl, t |-> SortedTimes(ts)[i]]]

\* for i, (label, times) in enumerate(sorted(events_by_label.items())): ...
\* (the marker's colour plays no part in what follows and is left out)
RECURSIVE MarkersFrom(_, _)
MarkersFrom(d, ks) ==
    IF ks = <<>> THEN <<>>
    ELSE MarkersOf(Head(ks), d[Head(ks)]) \o MarkersFrom(d, Tail(ks))

BuildMarkers(d) == MarkersFrom(d, SortedLabels(DOMAIN d))

---------------------------------------------------------------------------
(* main(), from the opening of the trace CSV to the end of the process.    *)

TraceRequired == {"months", "wheat", "flour", "bread"}
EventRequired == {"months", "event"}

\* main() as if `except Exception` caught SystemExit too
EventsOutcomeCatchAll(ev) ==
    IF ~ev.given THEN "none"
    ELSE IF ~ev.readable THEN "failed"
    ELSE IF ~HasRequired(ev.file.header, EventRequired) THEN "failed"
    ELSE "rows"

\* what `events_by_label = read_events(args.events)` comes to in main():
\*   "none"   --events not given, the block is skipped
\*   "failed" open() raises an ordinary exception, caught: empty overlay
\*   "fatal"  read_events raises SystemExit (headers), re-raised by main
\*   "rows"   the row loop runs
EventsOutcome(ev) ==
    IF ~ev.given THEN "none"
    ELSE IF ~ev.readable THEN "failed"
    ELSE IF ~HasRequired(ev.file.header, EventRequired) THEN "fatal"
    ELSE "rows"

\* with open(args.csv) ...: the header check
OpenCsv ==
    /\ pc = "start"
    /\ IF HasRequired(args.csv.header, TraceRequired)
       THEN /\ pc' = "rows"
            /\ UNCHANGED <<exitCode, stderr>>
       ELSE /\ pc' = "exit"
            /\ exitCode' = 2
            /\ stderr' = Append(stderr, "CSV missing required headers months,wheat,flour,bread")
    /\ UNCHANGED <<args, rowIdx, months, wheat, flour, bread, evIdx,
                   times_by_label, lines, hover_events, plt, saved, shown,
                   hoverVars, normVars>>

\* one turn of `for row in r` (the DictReader skips a blank row)
ReadRow ==
    /\ pc = "rows"
    /\ rowIdx < Len(args.csv.rows)
    /\ LET row == args.csv.rows[rowIdx + 1]
           new == IF row = <<>> THEN <<months, wheat, flour, bread>>
                  ELSE AppendSample(<<months, wheat, flour, bread>>, args.csv.header, row)
       IN  /\ months' = new[1] /\ wheat' = new[2]
           /\ flour' = new[3] /\ bread' = new[4]
    /\ rowIdx' = rowIdx + 1
    /\ UNCHANGED <<pc, args, evIdx, times_by_label, lines, hover_events, plt,
                   saved, shown, exitCode, stderr, hoverVars, normVars>>

\* the rows are exhausted and the file is closed
CloseCsv ==
    /\ pc = "rows"
    /\ rowIdx = Len(args.csv.rows)
    /\ pc' = "import"
    /\ UNCHANGED <<args, rowIdx, months, wheat, flour, bread, evIdx,
                   times_by_label, lines, hover_events, plt, saved, shown,
                   exitCode, stderr, hoverVars, normVars>>

\* import matplotlib.pyplot as plt
ImportPlt ==
    /\ pc = "import"
    /\ \/ /\ plt' = TRUE
          /\ pc' = "plot"
          /\ UNCHANGED <<exitCode, stderr>>
       \/ /\ plt' = FALSE
          /\ pc' = "exit"
          /\ exitCode' = 3
          /\ stderr' = Append(stderr, "matplotlib not available:")
    /\ UNCHANGED <<args, rowIdx, months, wheat, flour, bread, evIdx,
                   times_by_label, lines, hover_events, saved, shown,
                   hoverVars, normVars>>

\* fig, ax = plt.subplots(); the three step lines
PlotSeries ==
    /\ pc = "plot"
    /\ lines' = PlotLines(months, wheat, flour, bread)
    /\ pc' = "events"
    /\ UNCHANGED <<args, rowIdx, months, wheat, flour, bread, evIdx,
                   times_by_label, hover_events, plt, saved, shown,
                   exitCode, stderr, hoverVars, normVars>>

\* if args.events: try: read_events(...) up to its header check
OpenEvents ==
    /\ pc = "events"
    /\ LET o == EventsOutcome(args.events)
       IN  /\ pc' = CASE o = "none"   -> "decorate"
                      [] o = "failed" -> "markers"
                      [] o = "fatal"  -> "exit"
                      [] OTHER        -> "ev_rows"
           /\ exitCode' = IF o = "fatal" THEN 1 ELSE exitCode
           /\ stderr' = CASE o = "failed" -> Append(stderr, "Failed to read events CSV:")
                          [] o = "fatal"  -> Append(stderr, "Events CSV missing required headers months,event")
                          [] OTHER        -> stderr
    /\ UNCHANGED <<args, rowIdx, months, wheat, flour, bread, evIdx,
                   times_by_label, lines, hover_events, plt, saved, shown,
                   hoverVars, normVars>>

\* one turn of `for row in r` in read_events
ReadEventRow ==
    /\ pc = "ev_rows"
    /\ evIdx < Len(args.events.file.rows)
    /\ LET row == args.events.file.rows[evIdx + 1]
       IN  times_by_label' =
               IF row = <<>> THEN times_by_label
               ELSE AddEventRow(times_by_label, args.events.file.header, row)
    /\ evIdx' = evIdx + 1
    /\ UNCHANGED <<pc, args, rowIdx, months, wheat, flour, bread, lines,
                   hover_events, plt, saved, shown, exitCode, stderr,
                   hoverVars, normVars>>

\* return times_by_label
ReturnEvents ==
    /\ pc = "ev_rows"
    /\ evIdx = Len(args.events.file.rows)
    /\ pc' = "markers"
    /\ UNCHANGED <<args, rowIdx, months, wheat, flour, bread, evIdx,
                   times_by_label, lines, hover_events, plt, saved, shown,
                   exitCode, stderr, hoverVars, normVars>>

\* the marker loop over sorted(events_by_label.items())
DrawMarkers ==
    /\ pc = "markers"
    /\ hover_events' = BuildMarkers(times_by_label)
    /\ pc' = "decorate"
    /\ UNCHANGED <<args, rowIdx, months, wheat, flour, bread, evIdx,
                   times_by_label, lines, plt, saved, shown, exitCode,
                   stderr, hoverVars, normVars>>

\* labels, legend, the tooltip annotation, mpl_connect
Decorate ==
    /\ pc = "decorate"
    /\ annot' = NewAnnot
    /\ pc' = "save"
    /\ UNCHANGED <<args, rowIdx, months, wheat, flour, bread, evIdx,
                   times_by_label, lines, hover_events, plt, saved, shown,
                   exitCode, stderr, drew, event, normVars>>

\* if args.out: fig.savefig(args.out)
Save ==
    /\ pc = "save"
    /\ saved' = args.out
    /\ pc' = "show"
    /\ UNCHANGED <<args, rowIdx, months, wheat, flour, bread, evIdx,
                   times_by_label, lines, hover_events, plt, shown,
                   exitCode, stderr, hoverVars, normVars>>

\* if args.show: plt.show(); otherwise main() returns
Show ==
    /\ pc = "show"
    /\ shown' = args.show
    /\ pc' = IF args.show THEN "window" ELSE "exit"
    /\ exitCode' = IF args.show THEN exitCode ELSE 0
    /\ UNCHANGED <<args, rowIdx, months, wheat, flour, bread, evIdx,
                   times_by_label, lines, hover_events, plt, saved,
                   stderr, hoverVars, normVars>>

\* the window is closed: plt.show() and main() return
CloseWindow ==
    /\ pc = "window"
    /\ pc' = "exit"
    /\ exitCode' = 0
    /\ UNCHANGED <<args, rowIdx, months, wheat, flour, bread, evIdx,
                   times_by_label, lines, hover_events, plt, saved, shown,
                   stderr, hoverVars, normVars>>

\* the row loop of main() run to its end
RECURSIVE LoadedLists(_, _, _)
LoadedLists(lists, header, rows) ==
    IF rows = <<>> THEN lists
    ELSE LoadedLists(IF Head(rows) = <<>> THEN lists
                     ELSE AppendSample(lists, header, Head(rows)),
                     header, Tail(rows))

\* the row loop of read_events run to its end
RECURSIVE LoadedEvents(_, _, _)
LoadedEvents(d, header, rows) ==
    IF rows = <<>> THEN d
    ELSE LoadedEvents(IF Head(rows) = <<>> THEN d
                      ELSE AddEventRow(d, header, Head(rows)),
                      header, Tail(rows))

---------------------------------------------------------------------------
(* Inputs: files as the csv module hands them over, a header and rows of   *)
(* fields.                                                                 *)

MaxRows == 3
MaxEventRows == 3
MaxMainRows == 1

SeqsUpTo(S, n) == UNION {[1..k -> S] : k \in 0..n}

TraceRows ==
    { <<<<"0">>, <<"0">>, <<"0">>, <<"0">>>>,   \* a valid sample
      <<<<"1">>, <<"1","0">>, <<"5">>, <<"2">>>>,   \* another
      <<<<"2",".","5">>, <<" ","7"," ">>, <<"+","3">>, <<"-","1">>>>,   \* signs, a fraction and surrounding blanks parse
      <<<<"x">>, <<"1">>, <<"1">>, <<"1">>>>,   \* months is no float
      <<<<"1">>, <<"1",".","5">>, <<"1">>, <<"1">>>>,   \* wheat is a float, not an int
      <<<<"1">>, <<"1">>, <<>>, <<"1">>>>,   \* flour is empty
      <<<<"1">>, <<"1">>, <<"1">>, <<"b">>>>,   \* bread is no int
      <<<<"1">>, <<"1">>>>,   \* a short row: the missing fields are None
      <<<<"3">>, <<"1">>, <<"1">>, <<"1">>, <<"x">>>>,   \* a long row: the extra field is ignored
      <<>> }   \* a blank line

TraceHeaders ==
    { <<"months", "wheat", "flour", "bread">>,
      <<"wheat", "months", "bread", "flour", "note">>,
      <<"months", "wheat", "flour">>,
      <<>> }

TraceFiles == [header : TraceHeaders, rows : SeqsUpTo(TraceRows, MaxRows)]

EventRows ==
    { <<<<"1",".","0">>, <<"F","a","r","m","(","S","o","w","{","}",")">>>>,
      <<<<"2",".","0">>, <<"M","i","l","l","G","r","i","n","d">>>>,
      <<<<"x">>, <<"F","a","r","m","(","S","o","w","{","}",")">>>>,   \* months is no float
      <<<<"1",".","0">>>>,   \* a short row
      <<<<"0",".","5">>, <<"F","a","r","m","(","H","a","r","v","e","s","t","{","x",":","1">>, <<"y",":","2","}",")">>>>,   \* a label holding a comma: its tail is an extra field
      <<<<"F","a","r","m","(","S","o","w","{","}",")">>, <<"1",".","0">>>>,   \* the columns the other way round
      <<<<"O","v","e","n">>>>,
      <<>> }   \* a blank line

EventHeaders ==
    { <<"months", "event">>,
      <<"event", "months">> }

EventFiles == [header : EventHeaders, rows : SeqsUpTo(EventRows, MaxEventRows)]

\* the files of a whole run of main(): a few rows, every kind of header
MainTraceFiles ==
    [header : { <<"months", "wheat", "flour", "bread">>,
                <<"months", "wheat", "flour">>,
                <<>> },
     rows : SeqsUpTo({ <<<<"1">>, <<"1","0">>, <<"5">>, <<"2">>>>,
                       <<<<"x">>, <<"1">>, <<"1">>, <<"1">>>> }, MaxMainRows)]

MainEventFiles ==
    [header : { <<"months", "event">>, <<"months">>, <<"event", "note">> },
     rows : SeqsUpTo({ <<<<"1",".","0">>, <<"F","a","r","m","(","S","o","w","{","}",")">>>>,
                       <<<<"2",".","0">>, <<"M","i","l","l","G","r","i","n","d">>>>,
                       <<<<"1",".","0">>>> }, MaxMainRows)]

MainEventArgs ==
    { [given |-> FALSE, readable |-> FALSE, file |-> NoFile],
      [given |-> TRUE, readable |-> FALSE, file |-> NoFile] }
    \cup {[given |-> TRUE, readable |-> TRUE, file |-> f] : f \in MainEventFiles}

---------------------------------------------------------------------------
(* Spec: a run of main().                                                  *)

Init ==
    /\ pc = "start"
    /\ args \in [csv : MainTraceFiles, out : BOOLEAN, show : BOOLEAN,
                 events : MainEventArgs]
    /\ rowIdx = 0
    /\ months = <<>> /\ wheat = <<>> /\ flour = <<>> /\ bread = <<>>
    /\ evIdx = 0 /\ times_by_label = <<>>
    /\ lines = <<>> /\ hover_events = <<>>
    /\ plt = FALSE /\ saved = FALSE /\ shown = FALSE
    /\ exitCode = -1 /\ stderr = <<>>
    /\ HoverIdle /\ NormIdle

Next ==
    \/ OpenCsv \/ ReadRow \/ CloseCsv \/ ImportPlt \/ PlotSeries
    \/ OpenEvents \/ ReadEventRow \/ ReturnEvents \/ DrawMarkers
    \/ Decorate \/ Save \/ Show \/ CloseWindow

Spec == Init /\ [][Next]_vars

(* SpecTrace: the trace loader of main() on every file of TraceFiles.      *)

InitTrace ==
    /\ pc = "start"
    /\ args \in [csv : TraceFiles, out : {FALSE}, show : {FALSE},
                 events : {NoArgs.events}]
    /\ rowIdx = 0
    /\ months = <<>> /\ wheat = <<>> /\ flour = <<>> /\ bread = <<>>
    /\ evIdx = 0 /\ times_by_label = <<>>
    /\ lines = <<>> /\ hover_events = <<>>
    /\ plt = FALSE /\ saved = FALSE /\ shown = FALSE
    /\ exitCode = -1 /\ stderr = <<>>
    /\ HoverIdle /\ NormIdle

NextTrace == OpenCsv \/ ReadRow \/ CloseCsv

SpecTrace == InitTrace /\ [][NextTrace]_vars

(* SpecEvents: read_events and the marker loop on every file of            *)
(* EventFiles, from the point where main() reaches `if args.events` (here  *)
(* after an empty trace).                                                  *)

InitEvents ==
    /\ pc = "events"
    /\ args \in [csv : {[header |-> <<"months", "wheat", "flour", "bread">>, rows |-> <<>>]},
                 out : {FALSE}, show : {FALSE},
                 events : {[given |-> TRUE, readable |-> TRUE, file |-> f] : f \in EventFiles}]
    /\ rowIdx = 0
    /\ months = <<>> /\ wheat = <<>> /\ flour = <<>> /\ bread = <<>>
    /\ evIdx = 0 /\ times_by_label = <<>>
    /\ lines = <<>> /\ hover_events = <<>>
    /\ plt = TRUE /\ saved = FALSE /\ shown = FALSE
    /\ exitCode = -1 /\ stderr = <<>>
    /\ HoverIdle /\ NormIdle

NextEvents == OpenEvents \/ ReadEventRow \/ ReturnEvents \/ DrawMarkers

SpecEvents == InitEvents /\ [][NextEvents]_vars


---------------------------------------------------------------------------
(* The statements about the loaders and about the run of main().           *)

\* the k-th least element of a set of numbers
Kth(S, k) == CHOOSE i \in S : Cardinality({j \in S : j <= i}) = k

\* the rows of the trace CSV consumed so far whose four fields all parse
GoodRows ==
    {i \in 1..rowIdx :
        /\ ParseFloat(RowGet(args.csv.header, args.csv.rows[i], "months")).ok
        /\ ParseInt(RowGet(args.csv.header, args.csv.rows[i], "wheat")).ok
        /\ ParseInt(RowGet(args.csv.header, args.csv.rows[i], "flour")).ok
        /\ ParseInt(RowGet(args.csv.header, args.csv.rows[i], "bread")).ok}

GoodField(k, col) == RowGet(args.csv.header, args.csv.rows[Kth(GoodRows, k)], col)

\* C5: after every processed row the four lists are exactly the rows read
\* so far whose months parses as a float and whose wheat, flour and bread
\* parse as integers, in file order; a row in which one of the four fails
\* adds to none of them, so the four lists have equal length.
C5_TraceIsParsedSubsequence ==
    pc \in {"rows", "import"} =>
        /\ Len(months) = Cardinality(GoodRows)
        /\ Len(wheat) = Len(months) /\ Len(flour) = Len(months)
        /\ Len(bread) = Len(months)
        /\ \A k \in 1..Cardinality(GoodRows) :
              /\ months[k] = ParseFloat(GoodField(k, "months")).val
              /\ wheat[k] = ParseInt(GoodField(k, "wheat")).val
              /\ flour[k] = ParseInt(GoodField(k, "flour")).val
              /\ bread[k] = ParseInt(GoodField(k, "bread")).val

\* three rows were read, the second malformed in wheat only, and the two
\* others were loaded in order
C5_Witness ==
    /\ pc = "import"
    /\ rowIdx = 3
    /\ GoodRows = {1, 3}
    /\ ParseFloat(RowGet(args.csv.header, args.csv.rows[2], "months")).ok
    /\ months = <<1000, 0>>
    /\ wheat = <<10, 0>>

EvHeader == args.events.file.header
EvRows   == args.events.file.rows

MonthsParses(i) == ParseFloat(RowGet(EvHeader, EvRows[i], "months")).ok

HasEvent(i) == RowGet(EvHeader, EvRows[i], "event") # None

RowTime(i) == ParseFloat(RowGet(EvHeader, EvRows[i], "months")).val

\* the row's label: the event field, the extra fields appended with commas
RowKey(i) ==
    normalize(Trimmed(Join(<<RowGet(EvHeader, EvRows[i], "event")>>
                           \o RowExtras(EvHeader, EvRows[i]))))

RECURSIVE SumLens(_, _)
SumLens(d, S) ==
    IF S = {} THEN 0
    ELSE LET k == CHOOSE k \in S : TRUE
         IN  Len(d[k]) + SumLens(d, S \ {k})

TotalStored == SumLens(times_by_label, DOMAIN times_by_label)

\* the rows read so far that add an entry
Contributing == {i \in 1..evIdx : MonthsParses(i) /\ HasEvent(i)}

TraceHeaderMissing == ~(TraceRequired \subseteq Range(args.csv.header))

EventHeaderMissing ==
    /\ args.events.given /\ args.events.readable
    /\ ~(EventRequired \subseteq Range(EvHeader))

\* C2: if the header of the main CSV lacks one of months, wheat, flour,
\* bread, the run ends with exit code 2 after a diagnostic on standard
\* error and reaches no later stage: pyplot is not imported, the events
\* file is not read, no image is written, no window is opened.
C2_MissingTraceHeaderExits2 ==
    TraceHeaderMissing =>
        /\ pc \in {"start", "exit"}
        /\ pc = "exit" =>
              /\ exitCode = 2
              /\ stderr = <<"CSV missing required headers months,wheat,flour,bread">>
        /\ ~plt /\ ~saved /\ ~shown
        /\ rowIdx = 0 /\ evIdx = 0 /\ times_by_label = <<>>
        /\ lines = <<>> /\ hover_events = <<>>

\* a run given an image path, --show and an events file ended with code 2
\* on a header lacking only 'bread'
C2_Witness ==
    /\ pc = "exit" /\ exitCode = 2
    /\ args.csv.header = <<"months", "wheat", "flour">>
    /\ args.csv.rows # <<>>
    /\ args.out /\ args.show
    /\ args.events.given /\ args.events.readable

\* the run got past the trace CSV and the import of pyplot
PlotReached == plt

\* C1 as stated: when the events file lacks the months or the event
\* header, the run goes on with an empty overlay: the plot is saved when
\* out is given, shown when --show is set, with no event marker, and the
\* process is not terminated because of the events file.
C1_MissingEventHeaderDegrades ==
    (EventHeaderMissing /\ PlotReached /\ pc = "exit") =>
        /\ exitCode = 0
        /\ saved = args.out /\ shown = args.show
        /\ hover_events = <<>>

\* C1, amended: when the events file is readable and lacks the months or
\* the event header, read_events raises SystemExit, main() re-raises it,
\* and the run ends there with exit status 1 and the message on standard
\* error, no rows read, no marker drawn, nothing saved and no window shown.
C1_MissingEventHeaderIsFatal ==
    (EventHeaderMissing /\ PlotReached) =>
        /\ pc \in {"plot", "events", "exit"}
        /\ pc = "exit" =>
              /\ exitCode = 1
              /\ stderr = <<"Events CSV missing required headers months,event">>
        /\ evIdx = 0 /\ times_by_label = <<>> /\ hover_events = <<>>
        /\ ~saved /\ ~shown

\* a run with a loaded trace, an image path and --show ended with status 1
\* on an events file whose header lacks 'event'
C1_Witness ==
    /\ pc = "exit" /\ exitCode = 1
    /\ EventHeaderMissing
    /\ EvHeader = <<"months">>
    /\ Len(lines) = 3
    /\ args.out /\ args.show


---------------------------------------------------------------------------
(* on_move, the pointer-motion handler.                                    *)
(*                                                                         *)
(* A motion event carries the pointer (inaxes, xdata, ydata) and, for      *)
(* each artifact, what artifact.contains(event) does when the handler      *)
(* calls it.  For a series that is "raise", "miss", or "hit" with the      *)
(* first index of info["ind"] (0-based), -1 standing for an info that      *)
(* reports none; for a marker it is "raise", "miss" or "hit".              *)

Min(a, b) == IF a < b THEN a ELSE b
Max(a, b) == IF a > b THEN a ELSE b

\* bisect.bisect_left(a, x) on lo..hi, a indexed from 0 as in Python
RECURSIVE bisect_left(_, _, _, _)
bisect_left(a, x, lo, hi) ==
    IF lo < hi
    THEN LET mid == (lo + hi) \div 2
         IN  IF a[mid + 1] < x THEN bisect_left(a, x, mid + 1, hi)
             ELSE bisect_left(a, x, lo, mid)
    ELSE lo

\* bisect_right in its place
RECURSIVE bisect_right(_, _, _, _)
bisect_right(a, x, lo, hi) ==
    IF lo < hi
    THEN LET mid == (lo + hi) \div 2
         IN  IF x < a[mid + 1] THEN bisect_right(a, x, lo, mid)
             ELSE bisect_right(a, x, mid + 1, hi)
    ELSE lo

\* a slip: the insertion point taken to the right of equal times
SampleIndexRight(xd, ind, xdata) ==
    IF ind # -1 THEN ind
    ELSE Max(0, Min(Len(xd) - 1, bisect_right(xd, xdata, 0, Len(xd))))

\* ind = inds[0] if the info reports one, else the clamped bisect_left
\* (event.xdata is a number inside the axes, so the bisect does not raise)
SampleIndex(xd, ind, xdata) ==
    IF ind # -1 THEN ind
    ELSE Max(0, Min(Len(xd) - 1, bisect_left(xd, xdata, 0, Len(xd))))

\* the last series hit, as if the scan ran backwards
RECURSIVE LastSeriesHit(_, _)
LastSeriesHit(ev, i) ==
    IF i > Len(lines) THEN 0
    ELSE IF LastSeriesHit(ev, i + 1) # 0 THEN LastSeriesHit(ev, i + 1)
    ELSE IF ev.series[i].kind = "hit" THEN i ELSE 0

\* for ln in lines: the first line from position i whose probe hits, else 0
\* (a probe that raises is taken as no hit)
RECURSIVE FirstSeriesHit(_, _)
FirstSeriesHit(ev, i) ==
    IF i > Len(lines) THEN 0
    ELSE IF ev.series[i].kind = "hit" THEN i
    ELSE FirstSeriesHit(ev, i + 1)

\* for ln, label, t in hover_events: the first marker hit, else 0
RECURSIVE FirstMarkerHit(_, _)
FirstMarkerHit(ev, j) ==
    IF j > Len(hover_events) THEN 0
    ELSE IF ev.markers[j] = "hit" THEN j
    ELSE FirstMarkerHit(ev, j + 1)

\* update_annot(ln, x, y)
update_annot(ln, x, y) ==
    [visible |-> TRUE, xy |-> <<x, y>>,
     text |-> [kind |-> "series", label |-> ln.label, y |-> y, t |-> Fmt3(x)]]

\* the marker branch: annot.xy = (event.xdata, event.ydata); set_text; show
MarkerTip(ev, m) ==
    [visible |-> TRUE, xy |-> <<ev.xdata, ev.ydata>>,
     text |-> [kind |-> "marker", label |-> m.label, y |-> 0, t |-> Fmt3(m.t)]]

\* a slip: draw_idle outside the `if`
HideAlwaysDraw(an) ==
    [annot |-> [an EXCEPT !.visible = FALSE], drew |-> TRUE]

\* a slip: the visibility toggled instead of cleared
HideToggle(an) ==
    [annot |-> [an EXCEPT !.visible = ~an.visible], drew |-> TRUE]

\* if annot.get_visible(): annot.set_visible(False); fig.canvas.draw_idle()
Hide(an) ==
    IF an.visible
    THEN [annot |-> [an EXCEPT !.visible = FALSE], drew |-> TRUE]
    ELSE [annot |-> an, drew |-> FALSE]

\* on_move(event) with the tooltip as it is: the tooltip it leaves and
\* whether it asked for a redraw
on_move(ev, an) ==
    IF ~ev.inaxes THEN Hide(an)
    ELSE LET i == FirstSeriesHit(ev, 1)
             j == FirstMarkerHit(ev, 1)
         IN  IF i # 0
             THEN LET ind == SampleIndex(lines[i].xd, ev.series[i].ind, ev.xdata)
                  IN  [annot |-> update_annot(lines[i], lines[i].xd[ind + 1],
                                              lines[i].yd[ind + 1]),
                       drew |-> TRUE]
             ELSE IF j # 0
             THEN [annot |-> MarkerTip(ev, hover_events[j]), drew |-> TRUE]
             ELSE Hide(an)

\* what a series of n samples may answer to contains(event)
SeriesProbes(n) ==
    {[kind |-> "raise", ind |-> -1], [kind |-> "miss", ind |-> -1]}
    \cup {[kind |-> "hit", ind |-> i] : i \in (-1)..(n - 1)}

MarkerProbes == {"raise", "miss", "hit"}

\* pointer positions in data coordinates (x in thousandths)
Pointers == {<<0, 0>>, <<500, 7>>, <<1000, 10>>, <<2000, 3>>}

\* the motion events of the plot at hand: inside the axes every pointer and
\* every combination of answers; outside the axes, where no artifact is
\* asked, the event with every artifact under the pointer and the one with
\* none
MotionEvents ==
    {[inaxes |-> TRUE, xdata |-> p[1], ydata |-> p[2], series |-> sp, markers |-> mp] :
        p \in Pointers,
        sp \in [1..Len(lines) -> IF lines = <<>> THEN {} ELSE SeriesProbes(Len(lines[1].xd))],
        mp \in [1..Len(hover_events) -> MarkerProbes]}
    \cup
    {[inaxes |-> FALSE, xdata |-> 0, ydata |-> 0,
      series |-> [i \in 1..Len(lines) |-> [kind |-> k, ind |-> -1]],
      markers |-> [j \in 1..Len(hover_events) |-> k]] : k \in {"miss", "hit"}}

\* the event loop of plt.show() calls on_move with a motion event
Motion ==
    /\ pc = "window"
    /\ event' \in MotionEvents
    /\ pc' = "on_move"
    /\ UNCHANGED <<args, rowIdx, months, wheat, flour, bread, evIdx,
                   times_by_label, lines, hover_events, plt, saved, shown,
                   exitCode, stderr, annot, drew, normVars>>

\* the body of on_move
OnMove ==
    /\ pc = "on_move"
    /\ annot' = on_move(event, annot).annot
    /\ drew' = on_move(event, annot).drew
    /\ pc' = "handled"
    /\ UNCHANGED <<args, rowIdx, months, wheat, flour, bread, evIdx,
                   times_by_label, lines, hover_events, plt, saved, shown,
                   exitCode, stderr, event, normVars>>

\* on_move returns to the event loop; the event is dropped
Return ==
    /\ pc = "handled"
    /\ event' = NoEvent
    /\ pc' = "window"
    /\ UNCHANGED <<args, rowIdx, months, wheat, flour, bread, evIdx,
                   times_by_label, lines, hover_events, plt, saved, shown,
                   exitCode, stderr, annot, drew, normVars>>

(* SpecHover: the window of plt.show(), for each plot main() sets up from  *)
(* a small set of trace and events files.                                  *)

HoverTraceFiles ==
    [header : {<<"months", "wheat", "flour", "bread">>},
     rows : { <<>>,
              <<<<<<"0">>, <<"0">>, <<"1">>, <<"2">>>>, <<<<"1">>, <<"1","0">>, <<"5">>, <<"3">>>>>>,
              <<<<<<"1">>, <<"1","0">>, <<"5">>, <<"2">>>>, <<<<"1",".","0">>, <<"1","2">>, <<"6">>, <<"4">>>>>>,
              <<<<<<"1">>, <<"1","0">>, <<"5">>, <<"3">>>>, <<<<"0">>, <<"0">>, <<"1">>, <<"2">>>>>> }]

HoverEventArgs ==
    { NoArgs.events }
    \cup {[given |-> TRUE, readable |-> TRUE,
           file |-> [header |-> <<"months", "event">>, rows |-> r]] :
             r \in { <<<<<<"1",".","0">>, <<"M","i","l","l","(","G","r","i","n","d","{","}",")">>>>>>,
                     <<<<<<"0",".","5">>, <<"M","i","l","l","G","r","i","n","d">>>>, <<<<"1",".","0">>, <<"F","a","r","m","(","S","o","w","{","}",")">>>>>> }}

InitHover ==
    /\ pc = "window"
    /\ args \in [csv : HoverTraceFiles, out : {FALSE}, show : {TRUE},
                 events : HoverEventArgs]
    /\ rowIdx = Len(args.csv.rows)
    /\ LET l == LoadedLists(<< <<>>, <<>>, <<>>, <<>> >>, args.csv.header, args.csv.rows)
       IN  /\ months = l[1] /\ wheat = l[2] /\ flour = l[3] /\ bread = l[4]
           /\ lines = PlotLines(l[1], l[2], l[3], l[4])
    /\ evIdx = Len(args.events.file.rows)
    /\ times_by_label = LoadedEvents(<<>>, args.events.file.header, args.events.file.rows)
    /\ hover_events = BuildMarkers(times_by_label)
    /\ plt = TRUE /\ saved = FALSE /\ shown = TRUE
    /\ exitCode = -1 /\ stderr = <<>>
    /\ annot = NewAnnot /\ drew = FALSE /\ event = NoEvent
    /\ NormIdle

NextHover == Motion \/ OnMove \/ Return

SpecHover == InitHover /\ [][NextHover]_vars


---------------------------------------------------------------------------
(* The statements about the hover handler.                                 *)

\* the series and the markers whose probe reports a hit for the event
HitSeries  == {i \in 1..Len(lines) : event.series[i].kind = "hit"}
HitMarkers == {j \in 1..Len(hover_events) : event.markers[j] = "hit"}

Least(S) == CHOOSE i \in S : \A j \in S : i <= j

\* the event resolves to no artifact
NoHit == ~event.inaxes \/ (HitSeries = {} /\ HitMarkers = {})

\* C3: for a motion event inside the plotting area the tooltip is set from
\* the first artifact hit in the order Wheat, Flour, Bread, then the
\* markers in creation order, a probe that fails counting as no hit: if a
\* series is hit the tooltip shows the earliest hit series whatever the
\* markers answer, and a marker's text is shown only when no series is hit.
C3_FirstHitInScanOrder ==
    (pc = "handled" /\ event.inaxes) =>
        /\ lines = <<>> \/ [i \in 1..Len(lines) |-> lines[i].label] = <<Wheat, Flour, Bread>>
        /\ HitSeries # {} =>
              /\ annot.visible
              /\ annot.text.kind = "series"
              /\ annot.text.label = lines[Least(HitSeries)].label
        /\ (HitSeries = {} /\ HitMarkers # {}) =>
              /\ annot.visible
              /\ annot.text.kind = "marker"
              /\ annot.text.label = hover_events[Least(HitMarkers)].label
              /\ annot.text.t = Fmt3(hover_events[Least(HitMarkers)].t)
        /\ (annot.visible /\ annot.text.kind = "marker") => HitSeries = {}

\* Wheat's probe failed, Flour, Bread and a marker were hit: Flour is shown
C3_Witness ==
    /\ pc = "handled" /\ event.inaxes
    /\ HitSeries = {2, 3}
    /\ event.series[1].kind = "raise"
    /\ HitMarkers # {}
    /\ annot.visible /\ annot.text.label = Flour

\* C4: a motion event outside the plotting area, or hitting no series and
\* no marker, leaves the tooltip hidden; the handler changes the tooltip
\* and asks for a redraw only when the tooltip was visible before, so a
\* no-hit event that follows a no-hit event toggles nothing and asks for no
\* redraw.
C4_NoHitHidesOnce ==
    [][(pc = "on_move" /\ NoHit) =>
          /\ ~annot'.visible
          /\ drew' = annot.visible
          /\ annot' # annot => annot.visible
          /\ annot'.xy = annot.xy /\ annot'.text = annot.text]_vars

\* a no-hit event has been handled with the tooltip already hidden by an
\* earlier event (its text is a series'), and nothing was redrawn
C4_Witness ==
    /\ pc = "handled" /\ NoHit
    /\ ~annot.visible /\ annot.text.kind = "series"
    /\ ~drew

IsAscending(xd) == \A i \in 1..(Len(xd) - 1) : xd[i] <= xd[i + 1]

\* how many of the times are below x: the leftmost insertion point of x
\* among ascending times
InsertionPoint(xd, x) == Cardinality({k \in 1..Len(xd) : xd[k] < x})

\* the 0-based sample the tooltip of a hit series is anchored at, if any
AnchorSamples(ln) ==
    {i \in 0..(Len(ln.xd) - 1) : annot.xy = <<ln.xd[i + 1], ln.yd[i + 1]>>}

\* C9 as stated: the anchor of a hit series is (t_i, value_i) of one sample
\* i, the first index the hit test reports when it reports one and
\* otherwise the leftmost insertion point of the pointer's x among the
\* times, clamped to n-1; so a pointer x equal to a sample's time selects a
\* sample with that time, and a pointer x beyond the last time the last
\* sample.
C9_AnchorIsSampleAtInsertionPoint ==
    (pc = "handled" /\ event.inaxes /\ HitSeries # {}) =>
        LET ln  == lines[Least(HitSeries)]
            ind == event.series[Least(HitSeries)].ind
            n   == Len(ln.xd)
            i   == IF ind # -1 THEN ind
                   ELSE Min(InsertionPoint(ln.xd, event.xdata), n - 1)
        IN  /\ i \in AnchorSamples(ln)
            /\ (ind = -1 /\ \E k \in 1..n : ln.xd[k] = event.xdata)
                  => annot.xy[1] = event.xdata
            /\ (ind = -1 /\ event.xdata > ln.xd[n])
                  => annot.xy = <<ln.xd[n], ln.yd[n]>>

\* C9, amended: the anchor of a hit series is (t_i, value_i) of one sample
\* i with 0 <= i <= n-1, the first index the hit test reports when it
\* reports one; otherwise, when the series' times are in ascending order,
\* i is the leftmost insertion point of the pointer's x among them clamped
\* to n-1, so that a pointer x equal to a sample's time selects a sample
\* with that time and a pointer x beyond the last time the last sample.
C9_AnchorIsSampleAscending ==
    (pc = "handled" /\ event.inaxes /\ HitSeries # {}) =>
        LET ln  == lines[Least(HitSeries)]
            ind == event.series[Least(HitSeries)].ind
            n   == Len(ln.xd)
        IN  /\ AnchorSamples(ln) # {}
            /\ ind # -1 => ind \in AnchorSamples(ln)
            /\ (ind = -1 /\ IsAscending(ln.xd)) =>
                  /\ Min(InsertionPoint(ln.xd, event.xdata), n - 1) \in AnchorSamples(ln)
                  /\ (\E k \in 1..n : ln.xd[k] = event.xdata)
                        => annot.xy[1] = event.xdata
                  /\ event.xdata > ln.xd[n]
                        => annot.xy = <<ln.xd[n], ln.yd[n]>>

\* a hit that reported no index, at a pointer x equal to the time of the
\* first of two ascending samples, anchored the tooltip at that sample
C9_Witness ==
    /\ pc = "handled" /\ event.inaxes /\ HitSeries # {}
    /\ event.series[Least(HitSeries)].ind = -1
    /\ lines[1].xd = <<0, 1000>>
    /\ event.xdata = 0
    /\ annot.xy = <<0, lines[Least(HitSeries)].yd[1]>>

\* every value the tooltip of the plot at hand can hold
TipSpace ==
    {update_annot(lines[i], lines[i].xd[k], lines[i].yd[k]) :
        i \in 1..Len(lines), k \in 1..Len(months)}
    \cup {MarkerTip([xdata |-> p[1], ydata |-> p[2]], hover_events[j]) :
             p \in Pointers, j \in 1..Len(hover_events)}
    \cup {NewAnnot}

AnnotSpace == {[a EXCEPT !.visible = v] : a \in TipSpace, v \in BOOLEAN}

\* the same visibility and, when visible, the same anchor and text
SameTooltip(a, b) ==
    /\ a.visible = b.visible
    /\ a.visible => (a.xy = b.xy /\ a.text = b.text)

\* C10: after a motion event the tooltip's visibility and, when visible,
\* its anchor and text are those the handler leaves from any earlier
\* tooltip state (they depend on the event alone), and the same event
\* delivered again leaves the tooltip as it is.
C10_EventAloneDecides ==
    pc = "handled" =>
        /\ annot \in AnnotSpace
        /\ \A a \in AnnotSpace : SameTooltip(on_move(event, a).annot, annot)
        /\ on_move(event, annot).annot = annot

\* a no-hit event has been handled after a tooltip was shown
C10_Witness ==
    /\ pc = "handled" /\ NoHit
    /\ ~annot.visible /\ annot.text.kind = "marker"
    /\ drew

===========================================================================
